---- MODULE Spec2Model ----
(***************************************************************************)
(* Model of the chunk / embed / index / retrieve / merge pipeline:         *)
(*   create_chunks.py  (chunker and ingest into the chunk store)           *)
(*   embed_chunks.py   (incremental embedding pass, "sync")                *)
(*   app.py            (query serving)                                     *)
(*   search.py         (query + chapter reassembly, "expand")              *)
(*                                                                         *)
(* Texts are sequences of one-character strings; " " is whitespace.        *)
(***************************************************************************)
EXTENDS Integers, Sequences, FiniteSets, TLC

VARIABLES
    \* ---- chunker call (create_chunks.split_into_chunks) ----
    chapter_text,   \* the text argument
    max_single,     \* the max_single argument
    chunk_size,     \* the chunk_size argument
    chunk_texts,    \* the returned list of chunks
    cpc,            \* "off" | "call" | "returned"
    \* ---- chunk store (table chunks of books.db) ----
    chunks,         \* the rows, in rowid order
    \* ---- the embedding provider ----
    provider,       \* the vector the remote model gives each text
    failures,       \* how many embedding calls have failed so far
    \* ---- persisted embedding state ----
    faiss_file,     \* faiss_index.index: [present, vectors]
    mapping_file,   \* id_to_chunk_mapping.json: [present, dict]
    written,        \* which pass wrote each file last: [index, mapping]
    \* ---- the embed_chunks.main process (sync) ----
    spc,            \* "idle" | "loop" | "save_index" | "save_mapping" | "done"
    index,          \* the in-memory FAISS index: its vectors by position + 1
    chunk_mapping,  \* the in-memory dict str(position) -> chunk_id
    unembedded_chunks,  \* what is left of the list the loop walks
    pass,           \* what the current (or last) pass saw and asked for
    \* ---- one app.handle_query request ----
    qpc,            \* "idle" | "index_loaded" | "loaded" | "done"
    q_index,        \* the index the request loaded
    q_mapping,      \* the mapping the request loaded
    q_read,         \* which pass had written each file it loaded
    response,       \* what the request returned
    \* ---- search.main steps 7-8 (expand) ----
    matched_chunks,     \* the rows step 6 fetched
    merged_chapters,    \* the list step 8 returns
    epc                 \* "off" | "matched" | "merged"

chunkerVars == <<chapter_text, max_single, chunk_size, chunk_texts, cpc>>
fileVars == <<faiss_file, mapping_file, written>>
syncVars == <<spc, index, chunk_mapping, unembedded_chunks, pass>>

queryVars == <<qpc, q_index, q_mapping, q_read, response>>

expandVars == <<matched_chunks, merged_chapters, epc>>

vars == <<chunkerVars, chunks, provider, failures, fileVars, syncVars,
          queryVars, expandVars>>

\* ------------------------------------------------------------------ bounds
\* longest text (in characters) given to the chunker
MaxTextLen == 6
\* largest max_single / chunk_size argument given to the chunker
MaxArg == 3
\* most rows the chunk store holds
MaxChunks == 6
\* most sync passes started
MaxPasses == 2
\* most vectors the index of a pass may come to hold
MaxVectors == 6
\* most embedding calls that fail
MaxFailures == 1
\* most rows of the chunk store an expand starts from
MaxRows == 3

Min(a, b) == IF a < b THEN a ELSE b

\* ------------------------------------------------------------ Python text
Chars == {"a", "b", " "}

IsSpace(c) == c = " "

\* position i starts a word: a non-space preceded by a space or by nothing
IsWordStart(s, i) == ~IsSpace(s[i]) /\ (i = 1 \/ IsSpace(s[i - 1]))

\* position i ends a word: a non-space followed by a space or by nothing
IsWordEnd(s, i) == ~IsSpace(s[i]) /\ (i = Len(s) \/ IsSpace(s[i + 1]))

RECURSIVE WordStarts(_, _, _)
WordStarts(s, lo, hi) ==
    IF lo > hi THEN <<>>
    ELSE IF lo = hi THEN (IF IsWordStart(s, lo) THEN <<lo>> ELSE <<>>)
    ELSE LET mid == (lo + hi) \div 2
         IN  WordStarts(s, lo, mid) \o WordStarts(s, mid + 1, hi)

RECURSIVE WordEnds(_, _, _)
WordEnds(s, lo, hi) ==
    IF lo > hi THEN <<>>
    ELSE IF lo = hi THEN (IF IsWordEnd(s, lo) THEN <<lo>> ELSE <<>>)
    ELSE LET mid == (lo + hi) \div 2
         IN  WordEnds(s, lo, mid) \o WordEnds(s, mid + 1, hi)

\* str.split(): the maximal runs of non-whitespace characters, in order
split(s) ==
    LET st == WordStarts(s, 1, Len(s))
        en == WordEnds(s, 1, Len(s))
    IN  [j \in 1..Len(st) |-> SubSeq(s, st[j], en[j])]

RECURSIVE JoinRange(_, _, _)
JoinRange(ws, lo, hi) ==
    IF lo > hi THEN <<>>
    ELSE IF lo = hi THEN ws[lo]
    ELSE LET mid == (lo + hi) \div 2
         IN  JoinRange(ws, lo, mid) \o <<" ">> \o JoinRange(ws, mid + 1, hi)

\* " ".join(ws)
join(ws) == JoinRange(ws, 1, Len(ws))

\* ws[start:end] of Python (0-based, end exclusive, clipped to the length)
Slice(ws, start, end) == SubSeq(ws, start + 1, Min(end, Len(ws)))

\* ------------------------------------------- create_chunks.split_into_chunks
\* the arguments process_toc_entries passes to split_into_chunks
MAX_SINGLE == 1000
CHUNK_SIZE == 800

\* the loop with the condition "a whole window is left": the tail is dropped
RECURSIVE ChunkLoop_DropsTail(_, _, _, _)
ChunkLoop_DropsTail(words, size, start, out) ==
    IF start + size <= Len(words)
    THEN LET end == start + size
             chunk_text == join(Slice(words, start, end))
         IN  ChunkLoop_DropsTail(words, size, end, Append(out, chunk_text))
    ELSE out

\* the while loop of split_into_chunks
RECURSIVE ChunkLoop(_, _, _, _)
ChunkLoop(words, size, start, out) ==
    IF start < Len(words)
    THEN LET end == start + size
             chunk_text == join(Slice(words, start, end))
         IN  ChunkLoop(words, size, end, Append(out, chunk_text))
    ELSE out

\* the single chunk is rebuilt from the words instead of being the text
split_into_chunks_Rejoined(text, maxSingle, size) ==
    LET words == split(text)
        num_words == Len(words)
    IN  IF num_words <= maxSingle
        THEN <<join(words)>>
        ELSE ChunkLoop(words, size, 0, <<>>)

\* the threshold test is left out: every text goes through the loop
split_into_chunks_AlwaysWindows(text, maxSingle, size) ==
    ChunkLoop(split(text), size, 0, <<>>)

split_into_chunks(text, maxSingle, size) ==
    LET words == split(text)
        num_words == Len(words)
    IN  IF num_words <= maxSingle
        THEN <<text>>
        ELSE ChunkLoop(words, size, 0, <<>>)

\* ------------------------------------------------------ create_chunks: ingest
\* a column value that may be NULL (None in Python)
SqlNull == [null |-> TRUE, s |-> ""]
SqlStr(s) == [null |-> FALSE, s |-> s]

\* a Python title: None, or a string given as its first 200 characters (s)
\* and the rest (more)
NoneTitle == [none |-> TRUE, s |-> "", more |-> ""]
Title(s) == [none |-> FALSE, s |-> s, more |-> ""]
LongTitle(s, more) == [none |-> FALSE, s |-> s, more |-> more]

\* title[:200]
Truncate200(title) == [title EXCEPT !.more = ""]

\* str(title): the string itself, "None" for None
StrOfTitle(title) == IF title.none THEN Title("None") ELSE title

\* table-of-contents entries: an epub.Link, a nested list, a tuple
\* (href, title[, subitems]) or anything else
Link(title, href) ==
    [kind |-> "link", title |-> title, href |-> href, sub |-> <<>>, len |-> 0]
NestedList(entries) ==
    [kind |-> "list", title |-> NoneTitle, href |-> "", sub |-> entries, len |-> 0]
Tuple2(href, title) ==
    [kind |-> "tuple", title |-> title, href |-> href, sub |-> <<>>, len |-> 2]
Tuple3(href, title, subitems) ==
    [kind |-> "tuple", title |-> title, href |-> href, sub |-> subitems, len |-> 3]
OtherEntry ==
    [kind |-> "other", title |-> NoneTitle, href |-> "", sub |-> <<>>, len |-> 0]

\* extract_text_from_href: "" for a missing or non-document item, else the
\* item's text with whitespace runs collapsed and the ends stripped
extract_text_from_href(book, href) ==
    IF href \notin DOMAIN book.items THEN <<>>
    ELSE IF ~book.items[href].document THEN <<>>
    ELSE join(split(book.items[href].content))

\* the rows one entry adds (lines 100-109 and 130-138): one per chunk, with
\* local_index counting from 0; ids are assigned when the rows are stored
chunk_rows(book_title, chapter_title, text) ==
    LET cts == split_into_chunks(text, MAX_SINGLE, CHUNK_SIZE)
    IN  [i \in 1..Len(cts) |->
            [book_title |-> book_title,
             chapter_title |-> SqlStr(chapter_title.s),
             local_index |-> i - 1,
             text |-> cts[i]]]

\* process_toc_entries: the rows added to the session, in order, and whether
\* the walk raised (None[:200] is a TypeError)
RECURSIVE process_toc_entries(_, _, _, _)
process_toc_entries(book, entries, book_title, i) ==
    IF i > Len(entries) THEN [rows |-> <<>>, raised |-> FALSE]
    ELSE
      LET entry == entries[i]
          ctext == extract_text_from_href(book, entry.href)
          own ==
            IF entry.kind = "link" THEN
                IF ctext = <<>> THEN [rows |-> <<>>, raised |-> FALSE]
                ELSE IF entry.title.none THEN [rows |-> <<>>, raised |-> TRUE]
                ELSE [rows |-> chunk_rows(book_title, Truncate200(entry.title),
                                          ctext),
                      raised |-> FALSE]
            ELSE IF entry.kind = "list" THEN
                process_toc_entries(book, entry.sub, book_title, 1)
            ELSE IF entry.kind = "tuple" /\ entry.len >= 2 THEN
                LET main == IF ctext = <<>> THEN <<>>
                            ELSE chunk_rows(book_title,
                                            Truncate200(StrOfTitle(entry.title)),
                                            ctext)
                    subs == IF entry.len = 3 /\ entry.sub # <<>>
                            THEN process_toc_entries(book, entry.sub, book_title, 1)
                            ELSE [rows |-> <<>>, raised |-> FALSE]
                IN  [rows |-> main \o subs.rows, raised |-> subs.raised]
            ELSE [rows |-> <<>>, raised |-> FALSE]
          rest == process_toc_entries(book, entries, book_title, i + 1)
      IN  IF own.raised THEN own
          ELSE [rows |-> own.rows \o rest.rows, raised |-> rest.raised]

\* session.add .. session.commit: the pending rows get the next ids
commit(table, rows) ==
    table \o [i \in 1..Len(rows) |->
                [id |-> Len(table) + i,
                 book_title |-> rows[i].book_title,
                 chapter_title |-> rows[i].chapter_title,
                 local_index |-> rows[i].local_index,
                 text |-> rows[i].text]]

\* the loop of main over the EPUB files: each book is committed once it is
\* processed; an exception ends the program with the book's rows uncommitted
RECURSIVE ingest_files(_, _, _)
ingest_files(table, folder, i) ==
    IF i > Len(folder) THEN table
    ELSE LET r == process_toc_entries(folder[i].book, folder[i].book.toc,
                                      folder[i].stem, 1)
         IN  IF r.raised THEN table
             ELSE ingest_files(commit(table, r.rows), folder, i + 1)

\* create_chunks.main over the EPUB files of the books folder
CreateChunksMain(folder, maxRows) ==
    LET table == ingest_files(chunks, folder, 1)
    IN  /\ Len(table) <= maxRows
        /\ chunks' = table

\* ------------------------------------------------------- Python values
\* an int, and the str that spells an int in decimal: str(5) is not 5
PyInt(n) == [type |-> "int", val |-> n]
str(x) == [type |-> "str", val |-> x.val]

EmptyDict == [k \in {} |-> PyInt(0)]
DictSet(d, k, v) == [x \in DOMAIN d \cup {k} |-> IF x = k THEN v ELSE d[x]]
values(d) == {d[k] : k \in DOMAIN d}

\* json.dump then json.load of a dict: keys become strings, ints stay ints
JsonKey(k) == IF k.type = "str" THEN k ELSE str(k)
json_dump(d) ==
    [k \in {JsonKey(k0) : k0 \in DOMAIN d} |->
        d[CHOOSE k0 \in DOMAIN d : JsonKey(k0) = k]]
json_load(content) == content

\* ------------------------------------------------------ embed_chunks: sync
\* stand-ins for the embedding vectors (a point on a line; distance is the
\* squared difference)
Vectors == {0, 1}

\* generate_embedding: the provider's vector for the text
generate_embedding(text) == provider[text]

NoFaissFile == [present |-> FALSE, vectors |-> <<>>]
NoMappingFile == [present |-> FALSE, dict |-> EmptyDict]

\* embed_chunks.get_chunks_from_db: SELECT id, text FROM chunks
get_id_text(table) ==
    [i \in 1..Len(table) |->
        [chunk_id |-> PyInt(table[i].id), text |-> table[i].text]]

\* create_faiss_index: the file's index if the file exists, else a new one
create_faiss_index(file) == IF file.present THEN file.vectors ELSE <<>>

\* embed_chunks.load_chunk_mapping: {} if the file does not exist
load_chunk_mapping_or_empty(file) ==
    IF file.present THEN json_load(file.dict) ELSE EmptyDict

\* lines 108-109: the chunks whose str(id) is not among the mapping's values
select_unembedded(rows, mapping) ==
    LET embedded_chunk_ids == values(mapping)
    IN  SelectSeq(rows, LAMBDA r : str(r.chunk_id) \notin embedded_chunk_ids)

Ids(rows) == [i \in 1..Len(rows) |-> rows[i].chunk_id.val]

\* lines 96-110: load the chunks, the index and the mapping, list the work
SyncStart ==
    /\ spc \in {"idle", "done"}
    /\ pass.n < MaxPasses
    /\ Len(create_faiss_index(faiss_file)) + Len(chunks) <= MaxVectors
    /\ LET rows == get_id_text(chunks)
           idx == create_faiss_index(faiss_file)
           mapping == load_chunk_mapping_or_empty(mapping_file)
           todo == select_unembedded(rows, mapping)
       IN  /\ index' = idx
           /\ chunk_mapping' = mapping
           /\ unembedded_chunks' = todo
           /\ pass' = [n |-> pass.n + 1,
                       seen |-> Len(chunks),
                       planned |-> Ids(todo),
                       requested |-> <<>>,
                       failed |-> {},
                       clean |-> /\ spc = "done"
                                 /\ pass.failed = {}
                                 /\ pass.seen = Len(chunks),
                       base_size |-> Len(idx),
                       base_mapping |-> mapping]
           /\ spc' = IF todo = <<>> THEN "save_index" ELSE "loop"
    /\ UNCHANGED <<chunkerVars, queryVars, expandVars, chunks, provider, failures, fileVars>>

\* lines 113-117: the embedding is returned and added; the new position is
\* index.ntotal - 1
SyncEmbedOk ==
    /\ spc = "loop"
    /\ LET chunk_id == Head(unembedded_chunks).chunk_id
           embedding == generate_embedding(Head(unembedded_chunks).text)
           added == Append(index, embedding)
       IN  /\ index' = added
           /\ chunk_mapping' =
                  DictSet(chunk_mapping, str(PyInt(Len(added) - 1)), chunk_id)
           /\ pass' = [pass EXCEPT !.requested = Append(@, chunk_id.val)]
    /\ unembedded_chunks' = Tail(unembedded_chunks)
    /\ spc' = IF Tail(unembedded_chunks) = <<>> THEN "save_index" ELSE "loop"
    /\ UNCHANGED <<chunkerVars, queryVars, expandVars, chunks, provider, failures, fileVars>>

\* the failure ends the pass: nothing is saved
SyncEmbedFail_Aborts ==
    /\ spc = "loop"
    /\ failures < MaxFailures
    /\ failures' = failures + 1
    /\ pass' = [pass EXCEPT
                  !.requested = Append(@, Head(unembedded_chunks).chunk_id.val),
                  !.failed = @ \cup {Head(unembedded_chunks).chunk_id.val}]
    /\ unembedded_chunks' = <<>>
    /\ spc' = "done"
    /\ UNCHANGED <<chunkerVars, queryVars, expandVars, chunks, provider, fileVars, index, chunk_mapping>>

\* lines 118-120: generate_embedding (or index.add) raises; the chunk is
\* reported and the loop goes on
SyncEmbedFail ==
    /\ spc = "loop"
    /\ failures < MaxFailures
    /\ failures' = failures + 1
    /\ pass' = [pass EXCEPT
                  !.requested = Append(@, Head(unembedded_chunks).chunk_id.val),
                  !.failed = @ \cup {Head(unembedded_chunks).chunk_id.val}]
    /\ unembedded_chunks' = Tail(unembedded_chunks)
    /\ spc' = IF Tail(unembedded_chunks) = <<>> THEN "save_index" ELSE "loop"
    /\ UNCHANGED <<chunkerVars, queryVars, expandVars, chunks, provider, fileVars, index, chunk_mapping>>

\* line 123: save_faiss_index
SyncSaveIndex ==
    /\ spc = "save_index"
    /\ faiss_file' = [present |-> TRUE, vectors |-> index]
    /\ written' = [written EXCEPT !.index = pass.n]
    /\ spc' = "save_mapping"
    /\ UNCHANGED <<chunkerVars, queryVars, expandVars, chunks, provider, failures, mapping_file, index, chunk_mapping,
                   unembedded_chunks, pass>>

\* line 124: save_chunk_mapping
SyncSaveMapping ==
    /\ spc = "save_mapping"
    /\ mapping_file' = [present |-> TRUE, dict |-> json_dump(chunk_mapping)]
    /\ written' = [written EXCEPT !.mapping = pass.n]
    /\ spc' = "done"
    /\ UNCHANGED <<chunkerVars, queryVars, expandVars, chunks, provider, failures, faiss_file, index, chunk_mapping,
                   unembedded_chunks, pass>>

\* the process dies (killed, power loss) anywhere in a pass: its memory is
\* gone, the files stay as they are
SyncCrash ==
    /\ spc \in {"loop", "save_index", "save_mapping"}
    /\ spc' = "idle"
    /\ index' = <<>>
    /\ chunk_mapping' = EmptyDict
    /\ unembedded_chunks' = <<>>
    /\ UNCHANGED <<chunkerVars, queryVars, expandVars, chunks, provider, failures, fileVars, pass>>

\* --------------------------------------------------------- app: queries
\* top_k of handle_query (and of search.main)
TOP_K == 5

Distance(v, q) == (v - q) * (v - q)

\* what index.search returns for a slot it cannot fill
PadHit == [vector_id |-> -1, distance |-> 2 ^ 30]

\* the hit for position p, or the pad
Hit(vectors, q, p) ==
    IF p = -1 THEN PadHit
    ELSE [vector_id |-> p, distance |-> Distance(vectors[p + 1], q)]

\* the positions of S closest first (equal distances by position), then pads
\* up to k slots
Ranked(vectors, q, S, k) ==
    LET before(p, o) ==
            \/ Distance(vectors[p + 1], q) < Distance(vectors[o + 1], q)
            \/ /\ Distance(vectors[p + 1], q) = Distance(vectors[o + 1], q)
               /\ p < o
    IN  [i \in 1..k |->
            IF i > Cardinality(S) THEN PadHit
            ELSE Hit(vectors, q,
                     CHOOSE p \in S :
                        Cardinality({o \in S : before(o, p)}) = i - 1)]

\* index.search: the k nearest positions, closest first; slots beyond the
\* index size are padded with -1. Which of several equally distant positions
\* make the k is left open; the order among returned positions of equal
\* distance is by position (it does not reach the response)
search_faiss(vectors, query_vector, top_k) ==
    LET positions == 0..(Len(vectors) - 1)
        size == Min(top_k, Len(vectors))
        d(p) == Distance(vectors[p + 1], query_vector)
    IN  {Ranked(vectors, query_vector, S, top_k) :
            S \in {T \in SUBSET positions :
                      /\ Cardinality(T) = size
                      /\ \A p \in T : \A o \in positions \ T : d(p) <= d(o)}}

\* the lookup returns every chunk, whatever ids were asked for
get_chunks_from_db_AllRows(table, chunk_ids) == table

\* app.get_chunks_from_db: SELECT .. WHERE id IN (chunk_ids); no ORDER BY:
\* SQLite walks the rowid lookups in ascending id order, each row once
get_chunks_from_db(table, chunk_ids) ==
    SelectSeq(table, LAMBDA row :
                        \E i \in 1..Len(chunk_ids) : chunk_ids[i] = PyInt(row.id))

\* a response: the HTTP status, the exception for a 500, the result rows and,
\* beside them, the distance FAISS reported for each (the code drops it)
Response(status, error, results, distances) ==
    [status |-> status, error |-> error, results |-> results,
     distances |-> distances]

NotRead == [index |-> 0, mapping |-> 0]
NoResponse == Response(0, "", <<>>, <<>>)

\* lines 84-92: the request body is read and the index file loaded
QueryLoadIndex ==
    /\ qpc \in {"idle", "done"}
    /\ \E has_query \in BOOLEAN :
         IF ~has_query THEN
             /\ response' = Response(400, "Query parameter is missing",
                                      <<>>, <<>>)
             /\ qpc' = "done"
             /\ UNCHANGED <<q_index, q_read>>
         ELSE IF ~faiss_file.present THEN
             /\ response' = Response(500, "read_index", <<>>, <<>>)
             /\ qpc' = "done"
             /\ UNCHANGED <<q_index, q_read>>
         ELSE
             /\ q_index' = faiss_file.vectors
             /\ q_read' = [index |-> written.index, mapping |-> 0]
             /\ response' = NoResponse
             /\ qpc' = "index_loaded"
    /\ UNCHANGED <<chunkerVars, expandVars, chunks, provider, failures, fileVars, syncVars, q_mapping>>

\* line 93: the mapping file is loaded
QueryLoadMapping ==
    /\ qpc = "index_loaded"
    /\ IF ~mapping_file.present THEN
           /\ response' = Response(500, "FileNotFoundError", <<>>, <<>>)
           /\ qpc' = "done"
           /\ q_index' = <<>>
           /\ q_read' = NotRead
           /\ UNCHANGED q_mapping
       ELSE
           /\ q_mapping' = json_load(mapping_file.dict)
           /\ q_read' = [q_read EXCEPT !.mapping = written.mapping]
           /\ qpc' = "loaded"
           /\ UNCHANGED <<response, q_index>>
    /\ UNCHANGED <<chunkerVars, expandVars, chunks, provider, failures, fileVars, syncVars>>

\* the distance FAISS reported for a result row: that of the closest hit
\* mapped to the row's chunk
HitDistance(hits, chunk_ids, row) ==
    LET js == {j \in 1..Len(hits) : chunk_ids[j] = PyInt(row.id)}
    IN  hits[CHOOSE j \in js : \A o \in js : hits[j].distance <= hits[o].distance]
            .distance

\* lines 95-123: embed the query, search, map positions to chunk ids, fetch;
\* the request ends and its copies of the index and the mapping are freed
QueryAnswer ==
    /\ qpc = "loaded"
    /\ \/ response' = Response(500, "EmbeddingError", <<>>, <<>>)
       \/ \E query_vector \in Vectors :
          \E hits \in search_faiss(q_index, query_vector, TOP_K) :
            LET keys == [i \in 1..Len(hits) |-> str(PyInt(hits[i].vector_id))]
            IN  IF \E i \in 1..Len(keys) : keys[i] \notin DOMAIN q_mapping
                THEN response' = Response(500, "KeyError", <<>>, <<>>)
                ELSE
                  LET chunk_ids == [i \in 1..Len(keys) |-> q_mapping[keys[i]]]
                      fetched == get_chunks_from_db(chunks, chunk_ids)
                  IN  response' =
                        Response(200, "", fetched,
                                 [i \in 1..Len(fetched) |->
                                    HitDistance(hits, chunk_ids, fetched[i])])
    /\ qpc' = "done"
    /\ q_index' = <<>>
    /\ q_mapping' = EmptyDict
    /\ q_read' = NotRead
    /\ UNCHANGED <<chunkerVars, expandVars, chunks, provider, failures, fileVars, syncVars>>

\* ------------------------------------------------- search: expand (7-8)
\* SQL "a = b": never true when either side is NULL
SqlEq(a, b) == ~a.null /\ ~b.null /\ a.s = b.s

\* the rows of a sequence picked by a set of positions, in order
RECURSIVE Pick(_, _, _)
Pick(rows, keep, i) ==
    IF i > Len(rows) THEN <<>>
    ELSE (IF i \in keep THEN <<rows[i]>> ELSE <<>>) \o Pick(rows, keep, i + 1)

\* rows ordered by local_index; rows of equal local_index in the order rank
\* gives their ids
OrderByLocalIndex(rows, rank) ==
    LET before(a, b) ==
            \/ a.local_index < b.local_index
            \/ a.local_index = b.local_index /\ rank[a.id] < rank[b.id]
    IN  [i \in 1..Len(rows) |->
            rows[CHOOSE j \in 1..Len(rows) :
                    Cardinality({o \in 1..Len(rows) : before(rows[o], rows[j])})
                        = i - 1]]

\* the chapter filter with NULL taken to match NULL
get_all_chunks_for_chapter_NullSafe(table, book_title, chapter_title, rank) ==
    OrderByLocalIndex(
        SelectSeq(table, LAMBDA row :
                            /\ row.book_title = book_title
                            /\ row.chapter_title = chapter_title),
        rank)

\* search.get_all_chunks_for_chapter: WHERE book_title = ? AND
\* chapter_title = ? ORDER BY local_index
get_all_chunks_for_chapter(table, book_title, chapter_title, rank) ==
    OrderByLocalIndex(
        SelectSeq(table, LAMBDA row :
                            /\ row.book_title = book_title
                            /\ SqlEq(row.chapter_title, chapter_title)),
        rank)

\* step 7 (lines 146-153): the chunks of every chapter met among the matched
\* rows, each chapter fetched once
RECURSIVE all_relevant_chunks(_, _, _, _, _)
all_relevant_chunks(table, matched, i, seen_chapters, rank) ==
    IF i > Len(matched) THEN <<>>
    ELSE LET chapter_key == <<matched[i].book_title, matched[i].chapter_title>>
         IN  IF chapter_key \in seen_chapters
             THEN all_relevant_chunks(table, matched, i + 1, seen_chapters, rank)
             ELSE get_all_chunks_for_chapter(table, chapter_key[1],
                                             chapter_key[2], rank)
                  \o all_relevant_chunks(table, matched, i + 1,
                                         seen_chapters \cup {chapter_key}, rank)

\* the keys of a row list in first-seen order (the insertion order of
\* chapter_map)
RECURSIVE KeysInOrder(_, _, _)
KeysInOrder(rows, i, seen) ==
    IF i > Len(rows) THEN <<>>
    ELSE LET key == <<rows[i].book_title, rows[i].chapter_title>>
         IN  IF key \in seen THEN KeysInOrder(rows, i + 1, seen)
             ELSE <<key>> \o KeysInOrder(rows, i + 1, seen \cup {key})

\* sorted(chunk_list, key = local_index): stable
StableSortByLocalIndex(rows) ==
    LET before(a, b) ==
            \/ rows[a].local_index < rows[b].local_index
            \/ rows[a].local_index = rows[b].local_index /\ a < b
    IN  [i \in 1..Len(rows) |->
            rows[CHOOSE j \in 1..Len(rows) :
                    Cardinality({o \in 1..Len(rows) : before(o, j)}) = i - 1]]

Texts_of(rows) == [i \in 1..Len(rows) |-> rows[i].text]

\* search.merge_chunks_by_chapter
merge_chunks_by_chapter(rows) ==
    LET keys == KeysInOrder(rows, 1, {})
    IN  [k \in 1..Len(keys) |->
            LET chunk_list ==
                    SelectSeq(rows, LAMBDA row :
                        <<row.book_title, row.chapter_title>> = keys[k])
                sorted_chunks == StableSortByLocalIndex(chunk_list)
            IN  [book_title |-> keys[k][1],
                 chapter_title |-> keys[k][2],
                 text |-> join(Texts_of(sorted_chunks))]]

\* the orders SQLite may give rows of equal local_index
Ranks(table) ==
    LET ids == {table[i].id : i \in 1..Len(table)}
    IN  {f \in [ids -> 1..Len(table)] : \A a, b \in ids : a # b => f[a] # f[b]}

\* search.main, steps 7 and 8
Expand ==
    /\ epc = "matched"
    /\ \E rank \in Ranks(chunks) :
         merged_chapters' =
            merge_chunks_by_chapter(
                all_relevant_chunks(chunks, matched_chunks, 1, {}, rank))
    /\ epc' = "merged"
    /\ UNCHANGED <<chunkerVars, chunks, provider, failures, fileVars, syncVars,
                   queryVars, matched_chunks>>

\* ------------------------------------------------------- the pipeline spec
A1 == <<"a">>
A2 == <<"a", " ", "b">>

\* an EPUB with two chapters and an EPUB with three
BookTwo ==
    [items |-> [h \in {"c1", "c2"} |->
                  [document |-> TRUE, content |-> IF h = "c1" THEN A1 ELSE A2]],
     toc |-> <<Link(Title("1"), "c1"), Link(Title("2"), "c2")>>]
BookThree ==
    [items |-> [h \in {"c1", "c2"} |->
                  [document |-> TRUE, content |-> IF h = "c1" THEN A1 ELSE A2]],
     toc |-> <<Link(Title("1"), "c1"), Link(Title("2"), "c2"),
              Link(Title("3"), "c1")>>]

\* what the books folder may hold when create_chunks runs
Folders ==
    {<<>>,
     <<[stem |-> "A", book |-> BookTwo]>>,
     <<[stem |-> "B", book |-> BookThree]>>}

Off == 
    /\ chapter_text = <<>>
    /\ max_single = 0
    /\ chunk_size = 0
    /\ chunk_texts = <<>>
    /\ cpc = "off"

\* the chunk texts the folders give
ChunkTexts == {join(split(A1)), join(split(A2))}

\* no sync pass and no request has run; no file exists
PipelineOff ==
    /\ faiss_file = NoFaissFile
    /\ mapping_file = NoMappingFile
    /\ written = [index |-> 0, mapping |-> 0]
    /\ failures = 0
    /\ spc = "idle"
    /\ index = <<>>
    /\ chunk_mapping = EmptyDict
    /\ unembedded_chunks = <<>>
    /\ pass = [n |-> 0, seen |-> 0, planned |-> <<>>, requested |-> <<>>,
               failed |-> {}, clean |-> FALSE, base_size |-> 0,
               base_mapping |-> EmptyDict]
    /\ qpc = "idle"
    /\ q_index = <<>>
    /\ q_mapping = EmptyDict
    /\ q_read = NotRead
    /\ response = NoResponse

ExpandOff ==
    /\ matched_chunks = <<>>
    /\ merged_chapters = <<>>
    /\ epc = "off"

Init ==
    /\ Off
    /\ ExpandOff
    /\ PipelineOff
    /\ chunks = <<>>
    /\ provider \in [ChunkTexts -> Vectors]

Ingest ==
    /\ spc \in {"idle", "done"}
    /\ \E folder \in Folders : CreateChunksMain(folder, MaxChunks)
    /\ UNCHANGED <<chunkerVars, provider, failures, fileVars, syncVars, queryVars,
                   expandVars>>

\* ingest and sync passes, with crashes
Next ==
    \/ Ingest
    \/ SyncStart
    \/ SyncEmbedOk
    \/ SyncEmbedFail
    \/ SyncSaveIndex
    \/ SyncSaveMapping
    \/ SyncCrash

Spec == Init /\ [][Next]_vars

\* ingest and sync passes, with a query served at the same time
ServeNext ==
    \/ Ingest
    \/ SyncStart
    \/ SyncEmbedOk
    \/ SyncEmbedFail
    \/ SyncSaveIndex
    \/ SyncSaveMapping
    \/ QueryLoadIndex
    \/ QueryLoadMapping
    \/ QueryAnswer

SpecServe == Init /\ [][ServeNext]_vars

\* -------------------------------------------------------- the expand spec
\* tables of the chunks schema: ids count from 1, chapter_title may be NULL,
\* nothing else is constrained
RowValues ==
    [book_title : {"A", "B"},
     chapter_title : {SqlNull, SqlStr("1")},
     local_index : 0..2,
     text : {<<"a">>, <<"b">>}]

RECURSIVE TablesOfLen(_)
TablesOfLen(n) ==
    IF n = 0 THEN {<<>>}
    ELSE {commit(t, <<r>>) : t \in TablesOfLen(n - 1), r \in RowValues}

ExpandInit ==
    /\ Off
    /\ PipelineOff
    /\ provider = <<>>
    /\ chunks \in UNION {TablesOfLen(n) : n \in 1..MaxRows}
    /\ \E keep \in (SUBSET (1..Len(chunks))) \ {{}} :
          /\ Cardinality(keep) <= TOP_K
          /\ matched_chunks = Pick(chunks, keep, 1)
    /\ merged_chapters = <<>>
    /\ epc = "matched"

ExpandNext == Expand

SpecExpand == ExpandInit /\ [][ExpandNext]_vars

\* -------------------------------------------------------- the ingest spec
LongChapter == [i \in 1..(2 * 1001 - 1) |-> IF i % 2 = 1 THEN "a" ELSE " "]

Items ==
    [h \in {"c1", "c2", "c3", "img"} |->
        [document |-> h # "img",
         content |-> IF h = "c1" THEN <<" ", "a", " ", " ", "b">>
                     ELSE IF h = "c2" THEN <<"b">>
                     ELSE IF h = "c3" THEN LongChapter
                     ELSE <<"a">>]]

\* tables of contents: flat, two entries of one title, nested (a tuple with
\* sub-entries, a list, something else), a Link without a title, entries
\* without text, a chapter of 1001 words, titles equal in their first 200
\* characters
Tocs ==
    {<<Link(Title("1"), "c1"), Link(Title("2"), "c2")>>,
     <<Link(Title("1"), "c1"), Link(Title("1"), "c2")>>,
     <<Tuple3("c1", Title("1"), <<Link(Title("2"), "c2")>>),
       NestedList(<<Link(Title("3"), "c1")>>), OtherEntry,
       Tuple2("c2", NoneTitle)>>,
     <<Link(Title("1"), "c1"), Link(NoneTitle, "c2")>>,
     <<Link(Title("1"), "missing"), Link(Title("2"), "img")>>,
     <<Link(Title("1"), "c3")>>,
     <<Link(LongTitle("L", "x"), "c1"), Link(LongTitle("L", "y"), "c2")>>}

IngestBooks == {[items |-> Items, toc |-> toc] : toc \in Tocs}

\* the books folder: one EPUB, or A.epub and B.epub with the same content
IngestFolders ==
    {<<[stem |-> st, book |-> b]>> : st \in {"A", "B"}, b \in IngestBooks}
    \cup {<<[stem |-> "A", book |-> b], [stem |-> "B", book |-> b]>> :
              b \in IngestBooks}

\* an empty store, before any run
IngestInit ==
    /\ Off
    /\ ExpandOff
    /\ PipelineOff
    /\ chunks = <<>>
    /\ provider = <<>>

IngestOnly ==
    /\ \E folder \in IngestFolders : CreateChunksMain(folder, MaxChunks)
    /\ UNCHANGED <<chunkerVars, provider, failures, fileVars, syncVars,
                   queryVars, expandVars>>

IngestNext == IngestOnly

SpecIngest == IngestInit /\ [][IngestNext]_vars

\* ------------------------------------------------------------ chunker spec
RECURSIVE TextsOfLen(_)
TextsOfLen(n) ==
    IF n = 0 THEN {<<>>}
    ELSE {Append(t, c) : t \in TextsOfLen(n - 1), c \in Chars}

Texts == UNION {TextsOfLen(n) : n \in 0..MaxTextLen}

\* a chapter of 1700 one-letter words separated by single spaces
ExampleText == [i \in 1..(2 * 1700 - 1) |-> IF i % 2 = 1 THEN "a" ELSE " "]

ChunkerInit ==
    /\ \/ /\ chapter_text \in Texts
          /\ max_single \in 0..MaxArg
          /\ chunk_size \in 1..MaxArg
       \/ /\ chapter_text = ExampleText
          /\ max_single = MAX_SINGLE
          /\ chunk_size = CHUNK_SIZE
    /\ chunk_texts = <<>>
    /\ cpc = "call"
    /\ chunks = <<>>
    /\ provider = <<>>
    /\ PipelineOff
    /\ ExpandOff

CallSplitIntoChunks ==
    /\ cpc = "call"
    /\ chunk_texts' = split_into_chunks(chapter_text, max_single, chunk_size)
    /\ cpc' = "returned"
    /\ UNCHANGED <<chapter_text, max_single, chunk_size>>
    /\ UNCHANGED <<chunks, provider, failures, fileVars, syncVars, queryVars,
                   expandVars>>

ChunkerNext == CallSplitIntoChunks

SpecChunker == ChunkerInit /\ [][ChunkerNext]_vars

\* ---------------------------------------------------------------- claims
\* C1: a pass that follows a completed pass in which every embedding
\* succeeded, with no chunk added in between, requests no embedding and
\* leaves the index size and the mapping as that pass persisted them.
C1_Idempotent ==
    (spc = "done" /\ pass.clean) =>
        /\ pass.requested = <<>>
        /\ Len(faiss_file.vectors) = pass.base_size
        /\ mapping_file.dict = pass.base_mapping

\* C2: in the persisted mapping and in the mapping a pass is building, no
\* chunk id is the value of two vector positions.
C2_OnePositionPerChunk ==
    /\ \A k1, k2 \in DOMAIN mapping_file.dict :
          k1 # k2 => mapping_file.dict[k1] # mapping_file.dict[k2]
    /\ \A k1, k2 \in DOMAIN chunk_mapping :
          k1 # k2 => chunk_mapping[k1] # chunk_mapping[k2]

\* the chunk ids of a sequence that are not in a set, in order
RECURSIVE Without(_, _)
Without(ids, failed) ==
    IF ids = <<>> THEN <<>>
    ELSE (IF Head(ids) \in failed THEN <<>> ELSE <<Head(ids)>>)
         \o Without(Tail(ids), failed)

\* C3: when a pass is over, every chunk it listed was attempted, failed or
\* not; the index and the mapping it built are the persisted ones; a failed
\* chunk added no vector and no mapping entry: the index grew by one vector
\* per successful chunk and the new positions map, in order, to exactly the
\* successful chunks, the entries of earlier passes being unchanged.
C3_FailureSkipsOneChunk ==
    spc = "done" =>
        LET ok == Without(pass.requested, pass.failed)
        IN  /\ pass.requested = pass.planned
            /\ faiss_file = [present |-> TRUE, vectors |-> index]
            /\ mapping_file = [present |-> TRUE, dict |-> chunk_mapping]
            /\ written = [index |-> pass.n, mapping |-> pass.n]
            /\ Len(index) = pass.base_size + Len(ok)
            /\ DOMAIN chunk_mapping =
                  DOMAIN pass.base_mapping
                  \cup {str(PyInt(pass.base_size + i - 1)) : i \in 1..Len(ok)}
            /\ \A i \in 1..Len(ok) :
                  chunk_mapping[str(PyInt(pass.base_size + i - 1))]
                      = PyInt(ok[i])
            /\ \A k \in DOMAIN pass.base_mapping :
                  k \notin {str(PyInt(pass.base_size + i - 1)) : i \in 1..Len(ok)}
                      => chunk_mapping[k] = pass.base_mapping[k]

\* a finished pass in which a chunk failed and a later chunk was embedded
C3_Witness ==
    /\ spc = "done"
    /\ pass.failed # {}
    /\ \E i, j \in 1..Len(pass.requested) :
          /\ i < j
          /\ pass.requested[i] \in pass.failed
          /\ pass.requested[j] \notin pass.failed
          /\ PyInt(pass.requested[j]) \in
                {chunk_mapping[k] : k \in DOMAIN chunk_mapping \ DOMAIN pass.base_mapping}

\* C4: whenever no pass is running (before a pass, after one, after a
\* crash) the persisted index and the persisted mapping were written by the
\* same pass and every position of the index has a mapping entry.
C4_SamePassPair ==
    spc \in {"idle", "done"} =>
        /\ written.index = written.mapping
        /\ \A p \in 0..(Len(faiss_file.vectors) - 1) :
              str(PyInt(p)) \in DOMAIN mapping_file.dict

\* C5: a request that has loaded the index and the mapping and got its
\* query embedded completes (200) whatever positions the search returns,
\* with chunks of mapped positions only.
C5_UnmappedSkipped ==
    [][(qpc = "loaded" /\ qpc' = "done" /\ response'.error # "EmbeddingError")
        => /\ response'.status = 200
           /\ \A i \in 1..Len(response'.results) :
                 PyInt(response'.results[i].id) \in values(q_mapping)]_vars

\* C6: a successful response has at most k results, in order of
\* non-decreasing distance to the query vector.
C6_AtMostKByDistance ==
    response.status = 200 =>
        /\ Len(response.results) <= TOP_K
        /\ \A i \in 1..(Len(response.distances) - 1) :
              response.distances[i] <= response.distances[i + 1]

\* C7: a request that reads the index of one pass and finds the mapping of
\* another (or none yet), the index holding at least k vectors, completes
\* (200) once its query is embedded.
C7_MixedGenerationsTolerated ==
    [][(/\ qpc \in {"index_loaded", "loaded"}
        /\ qpc' = "done"
        /\ response'.error # "EmbeddingError"
        /\ Len(q_index) >= TOP_K
        /\ q_read.index # (IF qpc = "loaded" THEN q_read.mapping
                           ELSE written.mapping))
        => response'.status = 200]_vars

\* the (book_title, chapter_title) pairs of a row list
ChapterKeys(rows) ==
    {<<rows[i].book_title, rows[i].chapter_title>> : i \in 1..Len(rows)}

C9_UniqueTriple ==
    \A i, j \in 1..Len(chunks) :
        (/\ chunks[i].book_title = chunks[j].book_title
         /\ chunks[i].chapter_title = chunks[j].chapter_title
         /\ chunks[i].local_index = chunks[j].local_index) => i = j

RECURSIVE ConcatWords(_, _)
ConcatWords(cs, i) ==
    IF i > Len(cs) THEN <<>> ELSE split(cs[i]) \o ConcatWords(cs, i + 1)

WordCounts(cs) == [i \in 1..Len(cs) |-> Len(split(cs[i]))]

\* C10: for a text of more than max_single words (chunk_size >= 1) the
\* chunks returned are the consecutive windows of chunk_size words: every
\* chunk but the last has chunk_size words, the last has 1..chunk_size, and
\* the chunks' words concatenated are the words of the text; 1700 words with
\* max_single = 1000 and chunk_size = 800 give chunks of 800/800/100 words,
\* stored with local_index 0, 1, 2.
C10_Windows ==
    (cpc = "returned" /\ Len(split(chapter_text)) > max_single) =>
        LET words == split(chapter_text)
            n == Len(chunk_texts)
        IN  /\ n >= 1
            /\ \A i \in 1..n :
                   split(chunk_texts[i]) =
                       SubSeq(words, (i - 1) * chunk_size + 1,
                              Min(i * chunk_size, Len(words)))
            /\ \A i \in 1..(n - 1) : Len(split(chunk_texts[i])) = chunk_size
            /\ Len(split(chunk_texts[n])) \in 1..chunk_size
            /\ ConcatWords(chunk_texts, 1) = words
            /\ (chapter_text = ExampleText =>
                   /\ WordCounts(chunk_texts) = <<800, 800, 100>>
                   /\ LET rows == chunk_rows("A", Title("1"), chapter_text)
                      IN  [i \in 1..Len(rows) |-> rows[i].local_index]
                              = <<0, 1, 2>>)

\* a text split into several chunks, the last one shorter than chunk_size
C10_Witness ==
    /\ cpc = "returned"
    /\ Len(split(chapter_text)) > max_single
    /\ Len(chunk_texts) >= 2
    /\ Len(split(chunk_texts[Len(chunk_texts)])) < chunk_size
    /\ Len(split(chunk_texts[1])) = chunk_size

\* C11: for a text of at most max_single words the chunker returns exactly
\* one chunk, and that chunk is the input text, character for character.
C11_OneChunkEqualToInput ==
    (cpc = "returned" /\ Len(split(chapter_text)) <= max_single) =>
        chunk_texts = <<chapter_text>>

\* a text of at most max_single words, with whitespace that splitting and
\* rejoining would not give back, returned as it is
C11_Witness ==
    /\ cpc = "returned"
    /\ Len(split(chapter_text)) \in 1..max_single
    /\ join(split(chapter_text)) # chapter_text
    /\ chunk_texts = <<chapter_text>>

\* C12: for the empty text the chunker returns no chunk.
C12_EmptyGivesNoChunks ==
    (cpc = "returned" /\ chapter_text = <<>>) => chunk_texts = <<>>

\* C12 as amended: for the empty text (max_single >= 0) the chunker returns
\* one chunk, the empty text.
C12_EmptyGivesOneEmptyChunk ==
    (cpc = "returned" /\ chapter_text = <<>> /\ max_single >= 0) =>
        /\ Len(chunk_texts) = 1
        /\ chunk_texts[1] = <<>>

\* the chunker has returned for the empty text
C12_Witness ==
    /\ cpc = "returned"
    /\ chapter_text = <<>>
    /\ max_single >= 0
    /\ chunk_texts # <<>>

====
